---- MODULE Spec2Model ----
(***************************************************************************)
(* Token issuance (api/token_generator.py) and verification                *)
(* (api/jwt_auth.py) of the django-oauth2-demo repository.                 *)
(*                                                                         *)
(* Strings that the code inspects character by character (issuer names,    *)
(* scope strings) are sequences of one-character strings.  Python dicts    *)
(* (the JWT payload) are TLA+ functions whose DOMAIN is the set of keys    *)
(* that are present.  A compact JWT string is represented by what its      *)
(* three segments decode to; a signature is the triple (private key,       *)
(* algorithm, signing input) that produced it.                             *)
(***************************************************************************)
EXTENDS Integers, Sequences, FiniteSets, TLC

VARIABLES
    settings,   \* django.conf.settings: read-only after start-up
    now,        \* true UTC time, in whole seconds since the epoch
    accounts,   \* the account store: user id -> account row
    orig,       \* the token string last returned by generate_token (or NoToken)
    ctx,        \* the request generate_token was last called with
    tok,        \* the token string the client currently holds / presents
    res,        \* outcome of the last authenticate() call (Idle when none)
    sawExpired, \* history: authenticate() answered 'Token has expired' for tok
    call,       \* the function last applied and its arguments (for authenticate:
                \* the Authorization header, split at whitespace)
    ret         \* the value it returned (for authenticate: the string it handed
                \* to decode_jwt_token, NoToken when it handed none)

vars == <<settings, now, accounts, orig, ctx, tok, res, sawExpired, call, ret>>

(***************************************************************************)
(* Bounds of the model.                                                    *)
(***************************************************************************)
MaxTime == 3        \* the clock runs 0..MaxTime
MaxSkew == 1        \* local-time offsets from UTC: -MaxSkew..MaxSkew
MaxIssLen == 2      \* issuer strings of the key-name check: up to this long
MaxScopeLen == 3    \* scope strings of the scope check: up to this long

\* settings.OAUTH2_PROVIDER['ACCESS_TOKEN_EXPIRE_SECONDS'], scaled to the clock
Lifetimes == {2}

(***************************************************************************)
(* Strings.                                                                *)
(***************************************************************************)
IssuerChars == {"a", "A", "-", "_", "."}

\* str.upper() on one character
UpperChar(c) == IF c = "a" THEN "A" ELSE c

\* str.replace('-', '_') on one character
ReplaceDash(c) == IF c = "-" THEN "_" ELSE c

\* issuer.upper().replace('-', '_')
IssuerUpper(issuer) ==
    [i \in 1..Len(issuer) |-> ReplaceDash(UpperChar(issuer[i]))]

\* f'JWT_PUBLIC_KEY_{issuer_upper}'
PublicKeyName(issuer) == <<"JWT_PUBLIC_KEY_">> \o IssuerUpper(issuer)

\* f'JWT_PRIVATE_KEY_{issuer_upper}'
PrivateKeyName(issuer) == <<"JWT_PRIVATE_KEY_">> \o IssuerUpper(issuer)

\* The key pair a setting name belongs to: the name without its role prefix.
\* JWT_PRIVATE_KEY_X and JWT_PUBLIC_KEY_X hold the two halves of pair X.
PairOf(keyName) == Tail(keyName)

(***************************************************************************)
(* Deployment configuration (django.conf.settings).                        *)
(***************************************************************************)
\* settings.JWT_ISSUER of the modelled deployment
DefaultIssuer == <<"a", "-", "a">>

\* another issuer name, for which a verification key may be configured too
OtherIssuer == <<"a", ".", "a">>

\* JWS algorithm names that occur in token headers
Algs == {"RS256", "RS384", "HS256", "HS384", "none"}

\* the asymmetric algorithms: signing takes a private key, verifying the
\* public key of the same pair
AsymmetricAlgs == {"RS256", "RS384"}

SettingsSpace ==
    [ JWT_ISSUER : {DefaultIssuer},
      \* names of the JWT_PRIVATE_KEY_* / JWT_PUBLIC_KEY_* settings that are set
      privateKeys : {{}, {PrivateKeyName(DefaultIssuer)}},
      publicKeys : {{}, {PublicKeyName(DefaultIssuer)},
                    {PublicKeyName(DefaultIssuer), PublicKeyName(OtherIssuer)}},
      JWT_ENC_ALGORITHM : {"RS256", "RS384"},
      JWT_JWS_ALGORITHMS : {{"RS256"}, {"RS256", "RS384"}},
      JWT_AUTH_DISABLED : BOOLEAN,
      JWT_AUTH_HEADER_PREFIX : {"Bearer"},
      ACCESS_TOKEN_EXPIRE_SECONDS : Lifetimes,
      \* offset of the process's local time zone (settings.TIME_ZONE) from UTC
      utcOffset : (0 - MaxSkew)..MaxSkew ]

(***************************************************************************)
(* The account store (django.contrib.auth user model).                     *)
(***************************************************************************)
UserIds == {1, 12}
Usernames == {"al", "bo"}

NoAccount == [exists |-> FALSE]

Account(name, active, email) ==
    [exists |-> TRUE, username |-> name, is_active |-> active, email |-> email]

InitialAccounts ==
    (1 :> Account("al", TRUE, "al@x")) @@ (12 :> Account("bo", TRUE, ""))

(***************************************************************************)
(* Requests handed to generate_token by the OAuth2 provider.               *)
(***************************************************************************)
ClientIds == {"1"}
ScopeLists == {<<>>, <<<<"r">>, <<"w">>>>}

NoRequest == [kind |-> "none"]

\* client_id = "" : the attribute is None; client = "" : no client attribute;
\* user = 0 : no authenticated user on the request
Requests ==
    {NoRequest} \cup
    [ kind : {"request"},
      client_id : {""} \cup ClientIds,
      client : {""} \cup ClientIds,
      scopes : ScopeLists,
      user : {0, 1} ]

\* ' '.join(scopes)
RECURSIVE JoinScopes(_)
JoinScopes(scopes) ==
    IF scopes = <<>> THEN <<>>
    ELSE IF Len(scopes) = 1 THEN Head(scopes)
    ELSE Head(scopes) \o <<" ">> \o JoinScopes(Tail(scopes))

(***************************************************************************)
(* Tokens.  header and payload are what the first two segments decode to   *)
(* (Garbage when a segment is not base64url of a JSON object); sig is what *)
(* the third segment decodes to.  payloadText and sigText tell how the      *)
(* second and third segment are written: "canonical" (as the encoder       *)
(* writes them), "slack" (the last character differs in the bits that      *)
(* base64url decoding drops: other text, same decoded bytes) or, for the   *)
(* third, "broken" (not decodable).                                        *)
(***************************************************************************)
NoToken == [kind |-> "none"]
Garbage == [garbage |-> TRUE]

\* the signing input: the text of the first two segments
SigningInput(header, payload, payloadText) ==
    [header |-> header, payload |-> payload, text |-> payloadText]

\* the signature bytes an algorithm produces with a key over a signing input
Signature(alg, key, input) == [alg |-> alg, key |-> key, input |-> input]

\* signature bytes that no configured key produced
NoSignature == [alg |-> "none", key |-> <<>>, input |-> Garbage]

\* jwt.encode(payload, private_key, algorithm=algorithm)
JwtEncode(payload, privateKeyName, algorithm) ==
    LET header == [alg |-> algorithm, typ |-> "JWT"]
    IN [ kind |-> "jwt",
         header |-> header,
         payload |-> payload,
         payloadText |-> "canonical",
         sig |-> Signature(algorithm, PairOf(privateKeyName),
                           SigningInput(header, payload, "canonical")),
         sigText |-> "canonical" ]

\* int(datetime.utcnow().timestamp()): the naive UTC wall-clock value is read
\* back as local time, so the result is off by the local UTC offset
NaiveUtcTimestamp(t, utcOffset) == t - utcOffset

\* the client id generate_token settles on (lines 43-45)
RequestClientId(request) ==
    IF request.client_id # "" THEN request.client_id ELSE request.client

\* mutant: the client-credentials branch is missing
SubjectClaimsUserOnly(user, userId, client_id) ==
    IF user.exists
    THEN [sub |-> ToString(userId), username |-> user.username]
         @@ (IF user.email # "" THEN [email |-> user.email] ELSE <<>>)
    ELSE <<>>

\* the claims about the subject (lines 57-66): user is the request's
\* authenticated user (NoAccount when there is none), userId its id
SubjectClaims(user, userId, client_id) ==
    IF user.exists
    THEN [sub |-> ToString(userId), username |-> user.username]
         @@ (IF user.email # "" THEN [email |-> user.email] ELSE <<>>)
    ELSE IF client_id # "" THEN [sub |-> client_id]
    ELSE <<>>

\* Result of generate_token(request) called at time t with uuid4() = jti:
\* [raised |-> "ValueError"] or [raised |-> "", token |-> the token]
GenerateToken(request, t, jti, conf) ==
    LET expires_in == conf.ACCESS_TOKEN_EXPIRE_SECONDS
        nowTs == NaiveUtcTimestamp(t, conf.utcOffset)
        expTs == NaiveUtcTimestamp(t + expires_in, conf.utcOffset)
        base == [iss |-> conf.JWT_ISSUER, exp |-> expTs, iat |-> nowTs, jti |-> jti]
        hasReq == request.kind = "request"
        client_id == IF hasReq THEN RequestClientId(request) ELSE ""
        clientPart == IF hasReq /\ client_id # ""
                      THEN [client_id |-> client_id, aud |-> client_id]
                      ELSE <<>>
        scopePart == IF hasReq /\ request.scopes # <<>>
                     THEN [scope |-> JoinScopes(request.scopes)]
                     ELSE <<>>
        user == IF hasReq /\ request.user # 0 THEN accounts[request.user] ELSE NoAccount
        userPart == IF hasReq THEN SubjectClaims(user, request.user, client_id) ELSE <<>>
        payload == base @@ clientPart @@ scopePart @@ userPart
        private_key_name == PrivateKeyName(conf.JWT_ISSUER)
    IN IF private_key_name \notin conf.privateKeys
       THEN [raised |-> "ValueError"]
       ELSE [raised |-> "",
             token |-> JwtEncode(payload, private_key_name, conf.JWT_ENC_ALGORITHM)]

(***************************************************************************)
(* PyJWT 2.x as the code calls it.  Exceptions are named by their class.   *)
(* jwt.decode verifies the signature first and then the claims in the      *)
(* order iat, exp, aud; a token is expired from the second exp on; a       *)
(* payload with an aud claim is refused when no audience is passed; the    *)
(* segments are decoded with base64.urlsafe_b64decode, which ignores the   *)
(* unused trailing bits of a segment's last character.                     *)
(***************************************************************************)
\* jwt.DecodeError and its subclass
DecodeErrors == {"DecodeError", "InvalidSignatureError"}

\* jwt.InvalidTokenError and its subclasses
InvalidTokenErrors ==
    DecodeErrors \cup
    {"InvalidTokenError", "ExpiredSignatureError", "InvalidAudienceError",
     "InvalidAlgorithmError", "ImmatureSignatureError", "InvalidIssuedAtError"}

Raise(exc, msg) == [raised |-> exc, msg |-> msg]
Return(value) == [raised |-> "", value |-> value]

\* a payload value that is not a str (a JSON number, list, ...)
NonString == <<"<non-string>">>

\* What parsing the compact string yields (PyJWS._load and the payload's
\* json.loads): a DecodeError unless the string has three segments that
\* decode, the first two to JSON objects.
JwtLoad(token) ==
    IF token.kind # "jwt" THEN Raise("DecodeError", <<"Not enough segments">>)
    ELSE IF token.header = Garbage THEN Raise("DecodeError", <<"Invalid header string">>)
    ELSE IF token.sigText = "broken" THEN Raise("DecodeError", <<"Invalid crypto padding">>)
    ELSE IF token.payload = Garbage THEN Raise("DecodeError", <<"Invalid payload string">>)
    ELSE Return(token.payload)

\* jwt.decode(jwt_value, options={"verify_signature": False})
JwtDecodeUnverified(token) == JwtLoad(token)

\* mutant: the signature is checked against the keys of all trusted issuers,
\* not against the key selected by the token's iss
SignatureVerifiesAnyTrustedKey(token, publicKeyName) ==
    \E issuer \in {DefaultIssuer, OtherIssuer} :
        token.sig = Signature(token.header.alg, PairOf(PublicKeyName(issuer)),
                              SigningInput(token.header, token.payload, token.payloadText))

\* Algorithm.verify for the asymmetric algorithms: the signature bytes are
\* those the private half of the key's pair produces, under the header's
\* algorithm, over the signing input as received.
SignatureVerifies(token, publicKeyName) ==
    token.sig = Signature(token.header.alg, PairOf(publicKeyName),
                          SigningInput(token.header, token.payload, token.payloadText))

\* PyJWT's claim validation with verify_exp, verify_iat and the default
\* verify_aud, no audience given, at time t: iat, then exp, then aud.
ValidateClaims(payload, t) ==
    IF "iat" \in DOMAIN payload /\ payload.iat > t
    THEN Raise("ImmatureSignatureError", <<"The token is not yet valid (iat)">>)
    ELSE IF "exp" \in DOMAIN payload /\ payload.exp <= t
    THEN Raise("ExpiredSignatureError", <<"Signature has expired">>)
    ELSE IF "aud" \in DOMAIN payload /\ payload.aud # ""
    THEN Raise("InvalidAudienceError", <<"Invalid audience">>)
    ELSE Return(payload)

\* mutant: the header's algorithm is used without consulting the allow-list
VerifySignatureAnyAlgorithm(token, publicKeyName, algorithms) ==
    IF "alg" \notin DOMAIN token.header
    THEN Raise("InvalidAlgorithmError", <<"The specified alg value is not allowed">>)
    ELSE IF token.header.alg \notin AsymmetricAlgs
    THEN Raise("InvalidKeyError", <<"The specified key cannot be used">>)
    ELSE IF ~SignatureVerifies(token, publicKeyName)
    THEN Raise("InvalidSignatureError", <<"Signature verification failed">>)
    ELSE Return(TRUE)

\* PyJWS._verify_signature: allow-list, key preparation, signature
VerifySignature(token, publicKeyName, algorithms) ==
    IF "alg" \notin DOMAIN token.header \/ token.header.alg \notin algorithms
    THEN Raise("InvalidAlgorithmError", <<"The specified alg value is not allowed">>)
    ELSE IF token.header.alg \notin AsymmetricAlgs
    THEN \* a PEM key is refused as an HMAC secret, any key is refused for 'none'
         Raise("InvalidKeyError", <<"The specified key cannot be used">>)
    ELSE IF ~SignatureVerifies(token, publicKeyName)
    THEN Raise("InvalidSignatureError", <<"Signature verification failed">>)
    ELSE Return(TRUE)

\* jwt.decode(jwt_value, public_key, algorithms=algorithms,
\*            options={verify_signature, verify_exp, verify_iat}) at time t
JwtDecodeVerified(token, publicKeyName, algorithms, t) ==
    IF algorithms = {}
    THEN Raise("DecodeError", <<"It is required that you pass in a value for algorithms">>)
    ELSE IF JwtLoad(token).raised # "" THEN JwtLoad(token)
    ELSE IF VerifySignature(token, publicKeyName, algorithms).raised # ""
    THEN VerifySignature(token, publicKeyName, algorithms)
    ELSE ValidateClaims(token.payload, t)

(***************************************************************************)
(* api/jwt_auth.py                                                         *)
(***************************************************************************)
\* unverified.get('iss', settings.JWT_ISSUER)
IssuerOf(unverified, conf) ==
    IF "iss" \in DOMAIN unverified THEN unverified.iss ELSE conf.JWT_ISSUER

\* raise jwt.InvalidTokenError(f'Missing public key setting: {public_key_name}')
MissingPublicKeyError(public_key_name) ==
    Raise("InvalidTokenError", <<"Missing public key setting: ">> \o public_key_name)

\* decode_jwt_token(jwt_value) at time t
DecodeJwtToken(jwt_value, t, conf) ==
    LET unverified == JwtDecodeUnverified(jwt_value)
        issuer == IssuerOf(unverified.value, conf)
        public_key_name == PublicKeyName(issuer)
    IN IF unverified.raised # "" THEN unverified
       ELSE IF issuer = NonString
       THEN Raise("AttributeError", <<"object has no attribute 'upper'">>)
       ELSE IF public_key_name \notin conf.publicKeys
       THEN MissingPublicKeyError(public_key_name)
       ELSE JwtDecodeVerified(jwt_value, public_key_name, conf.JWT_JWS_ALGORITHMS, t)

\* AnonymousUser() as a principal
AnonymousUser == 0

\* the integer a user-id string denotes to the ORM, -1 when it denotes none
IdOfString(str) ==
    IF \E n \in 0..99 : ToString(n) = str
    THEN CHOOSE n \in 0..99 : ToString(n) = str
    ELSE -1

\* payload.get(name), None and the empty string both read as ""
PayloadGet(payload, name) ==
    IF name \in DOMAIN payload THEN payload[name] ELSE ""

\* User.objects.get(id=user_id, username=username): the matching ids
MatchingAccounts(store, user_id, username) ==
    {u \in DOMAIN store :
        /\ store[u].exists
        /\ u = IdOfString(user_id)
        /\ store[u].username = username}

\* JWTAuthentication.authenticate_credentials(payload)
\* lookup tells whether User.objects.get was called.  The user model's id is
\* an integer field: the ORM raises ValueError for an id that int() does not
\* accept, before any row is looked at.
AuthenticateCredentials(payload, store, conf) ==
    LET user_id == PayloadGet(payload, "sub")
        username == PayloadGet(payload, "username")
        found == MatchingAccounts(store, user_id, username)
    IN IF conf.JWT_AUTH_DISABLED
       THEN [raised |-> "", user |-> AnonymousUser, lookup |-> FALSE]
       ELSE IF user_id = "" \/ username = ""
       THEN [raised |-> "", user |-> AnonymousUser, lookup |-> FALSE]
       ELSE IF IdOfString(user_id) = -1
       THEN [raised |-> "ValueError",
             msg |-> <<"Field 'id' expected a number but got ", user_id>>,
             lookup |-> TRUE]
       ELSE IF found = {}
       THEN [raised |-> "AuthenticationFailed", msg |-> <<"User not found">>,
             lookup |-> TRUE]
       ELSE LET u == CHOOSE x \in found : TRUE
            IN IF ~store[u].is_active
               THEN [raised |-> "AuthenticationFailed",
                     msg |-> <<"User account is disabled">>, lookup |-> TRUE]
               ELSE [raised |-> "", user |-> u, lookup |-> TRUE]

\* one whitespace-separated element of the Authorization header
Word(text) == [word |-> text]

\* an element of the Authorization header whose bytes are not valid UTF-8
\* (the header arrives as bytes; any byte but whitespace can occur in it)
InvalidUtf8 == [kind |-> "invalid-utf8"]

\* mutant: the check for more than one element after the scheme is missing
GetJwtValueFirstCredential(header, conf) ==
    IF header = <<>> THEN Return(NoToken)
    ELSE IF header[1] = InvalidUtf8
    THEN Raise("DjangoUnicodeDecodeError", <<"'utf-8' codec can't decode byte">>)
    ELSE IF header[1] # Word(conf.JWT_AUTH_HEADER_PREFIX) THEN Return(NoToken)
    ELSE IF Len(header) = 1
    THEN Raise("AuthenticationFailed",
               <<"Invalid Authorization header. No credentials provided.">>)
    ELSE IF header[2] = InvalidUtf8
    THEN Raise("UnicodeDecodeError", <<"'utf-8' codec can't decode byte">>)
    ELSE Return(header[2])

\* JWTAuthentication._get_jwt_value(request); header is
\* get_authorization_header(request).split().  smart_str(auth[0]) and
\* auth[1].decode('utf-8') decode strictly and raise on bytes that are not
\* UTF-8.
GetJwtValue(header, conf) ==
    IF header = <<>> THEN Return(NoToken)
    ELSE IF header[1] = InvalidUtf8
    THEN Raise("DjangoUnicodeDecodeError", <<"'utf-8' codec can't decode byte">>)
    ELSE IF header[1] # Word(conf.JWT_AUTH_HEADER_PREFIX) THEN Return(NoToken)
    ELSE IF Len(header) = 1
    THEN Raise("AuthenticationFailed",
               <<"Invalid Authorization header. No credentials provided.">>)
    ELSE IF Len(header) > 2
    THEN Raise("AuthenticationFailed",
               <<"Invalid Authorization header. Credentials string should not contain spaces.">>)
    ELSE IF header[2] = InvalidUtf8
    THEN Raise("UnicodeDecodeError", <<"'utf-8' codec can't decode byte">>)
    ELSE Return(header[2])

\* the argument authenticate() hands to decode_jwt_token for this header
\* (lines 107-112), NoToken when decode_jwt_token is not called
DecodeArgument(header, conf) ==
    LET jwt_value == GetJwtValue(header, conf)
    IN IF jwt_value.raised # "" THEN NoToken ELSE jwt_value.value

\* outcomes of authenticate()
Idle == [kind |-> "idle"]
ReturnedNone == [kind |-> "None"]
Authenticated(user, payload, lookup) ==
    [kind |-> "authenticated", user |-> user, auth |-> payload, lookup |-> lookup]
Failed(exc, msg, lookup) ==
    [kind |-> exc, reason |-> msg, lookup |-> lookup]

\* JWTAuthentication.authenticate(request) at time t
Authenticate(header, t, store, conf) ==
    LET jwt_value == GetJwtValue(header, conf)
        decoded == DecodeJwtToken(jwt_value.value, t, conf)
        creds == AuthenticateCredentials(decoded.value, store, conf)
    IN IF jwt_value.raised # "" THEN Failed(jwt_value.raised, jwt_value.msg, FALSE)
       ELSE IF jwt_value.value = NoToken THEN ReturnedNone
       ELSE IF decoded.raised = "ExpiredSignatureError"
       THEN Failed("AuthenticationFailed", <<"Token has expired">>, FALSE)
       ELSE IF decoded.raised \in DecodeErrors
       THEN Failed("AuthenticationFailed", <<"Error decoding token">>, FALSE)
       ELSE IF decoded.raised \in InvalidTokenErrors
       THEN Failed("AuthenticationFailed", <<"Invalid token: ">> \o decoded.msg, FALSE)
       ELSE IF decoded.raised # "" THEN Failed(decoded.raised, decoded.msg, FALSE)
       ELSE IF creds.raised # "" THEN Failed(creds.raised, creds.msg, creds.lookup)
       ELSE Authenticated(creds.user, decoded.value, creds.lookup)

(***************************************************************************)
(* JwtToken: the scope check                                               *)
(***************************************************************************)
\* str.split(): the maximal runs of non-blank characters, in order
RECURSIVE Split(_, _)
Split(str, word) ==
    IF str = <<>> THEN (IF word = <<>> THEN <<>> ELSE <<word>>)
    ELSE IF Head(str) = " "
    THEN (IF word = <<>> THEN <<>> ELSE <<word>>) \o Split(Tail(str), <<>>)
    ELSE Split(Tail(str), Append(word, Head(str)))

Range(seq) == {seq[i] : i \in 1..Len(seq)}

\* mutant: one of the required scopes is enough
AllowScopesAny(payload, scopes) ==
    LET token_scope == IF "scope" \in DOMAIN payload THEN payload.scope ELSE <<>>
        provided_scopes == Range(Split(token_scope, <<>>))
    IN scopes = <<>> \/ Range(scopes) \cap provided_scopes # {}

\* JwtToken.allow_scopes(scopes); scopes = <<>> stands for None and for []
AllowScopes(payload, scopes) ==
    LET token_scope == IF "scope" \in DOMAIN payload THEN payload.scope ELSE <<>>
        provided_scopes == IF token_scope # <<>> THEN Range(Split(token_scope, <<>>))
                           ELSE {}
        resource_scopes == Range(scopes)
    IN IF scopes = <<>> THEN TRUE
       ELSE resource_scopes \subseteq provided_scopes

\* JwtToken.is_expired()
IsExpired(payload) == FALSE

\* JwtToken.is_valid(scopes)
IsValid(payload, scopes) == ~IsExpired(payload) /\ AllowScopes(payload, scopes)

(***************************************************************************)
(* What a holder of a token string, or an attacker without one, can        *)
(* present.                                                                *)
(***************************************************************************)
\* the algorithm names one changed byte turns an algorithm name into
OneByteAlgs(alg) ==
    IF alg = "RS256" THEN {"HS256"}
    ELSE IF alg = "RS384" THEN {"HS384"}
    ELSE {}

\* the issuer names one changed byte turns the deployment's issuer into
OneByteIssuers == {<<"a", "_", "a">>, <<"a", ".", "a">>, <<"A", "-", "a">>}

\* the token strings that differ from token in exactly one byte, by segment
TamperedHeader(token) ==
    {[token EXCEPT !.header = Garbage]}
    \cup {[token EXCEPT !.header.alg = a] : a \in OneByteAlgs(token.header.alg)}
    \cup {[token EXCEPT !.header.typ = "JWS"]}

TamperedPayload(token) ==
    {[token EXCEPT !.payload = Garbage]}
    \cup {[token EXCEPT !.payload.iss = i] : i \in OneByteIssuers}
    \cup {[token EXCEPT !.payload.exp = @ + 1]}
    \cup {[token EXCEPT !.payloadText = "slack"]}

TamperedSignature(token) ==
    {[token EXCEPT !.sig.key = <<>>],       \* other signature bytes
     [token EXCEPT !.sigText = "slack"],    \* same bytes, last character differs
     [token EXCEPT !.sigText = "broken"]}   \* a character outside the alphabet

Tampered(token) ==
    IF token.kind # "jwt" THEN {}
    ELSE TamperedHeader(token) \cup TamperedPayload(token) \cup TamperedSignature(token)

\* the key an attacker can always get: the PEM text of a public key
PublicKeyText(issuer) == <<"PEM">> \o PairOf(PublicKeyName(issuer))

\* token strings built without any private key
ForgedTokens ==
    {[kind |-> "opaque"]} \cup
    { [ kind |-> "jwt", header |-> h, payload |-> p, payloadText |-> "canonical",
        sig |-> s, sigText |-> "canonical" ] :
        h \in [alg : {"RS256", "HS256", "none"}, typ : {"JWT"}],
        p \in [iss : {DefaultIssuer, OtherIssuer, NonString},
               exp : {MaxTime + 1}, iat : {0}, sub : {"1"}, username : {"al"}]
              \cup [exp : {MaxTime + 1}, iat : {0}, sub : {"1"}, username : {"al"}],
        s \in {NoSignature} }
    \cup
    { [ kind |-> "jwt", header |-> h, payload |-> p, payloadText |-> "canonical",
        sig |-> Signature(h.alg, PublicKeyText(DefaultIssuer),
                          SigningInput(h, p, "canonical")),
        sigText |-> "canonical" ] :
        h \in [alg : {"HS256"}, typ : {"JWT"}],
        p \in [iss : {DefaultIssuer}, exp : {MaxTime + 1}, iat : {0},
               sub : {"1"}, username : {"al"}] }

\* the claims another trusted issuer puts into a token for the account 'al'
FederatedClaims ==
    [iss |-> OtherIssuer, exp |-> MaxTime + 1, iat |-> 0, sub |-> "1", username |-> "al"]

\* payloads the other issuer can sign: its own claims; the same claiming this
\* deployment's issuer, or none; with a subject that is not a number; without
\* iat; with iat ahead of the clock and exp behind it
FederatedPayloads ==
    {FederatedClaims,
     [FederatedClaims EXCEPT !.iss = DefaultIssuer],
     [k \in DOMAIN FederatedClaims \ {"iss"} |-> FederatedClaims[k]],
     [FederatedClaims EXCEPT !.sub = "x"],
     [k \in DOMAIN FederatedClaims \ {"iat"} |-> FederatedClaims[k]],
     [FederatedClaims EXCEPT !.iat = MaxTime + 1, !.exp = 0]}

\* token strings signed with the private key of OtherIssuer, whose public key
\* a deployment may have configured as JWT_PUBLIC_KEY_<OtherIssuer>
FederatedTokens ==
    {JwtEncode(p, PrivateKeyName(OtherIssuer), "RS256") : p \in FederatedPayloads}

\* the Authorization headers a client can build around a token string
HeadersWith(token) ==
    {<<>>, <<Word("Bearer")>>, <<Word("Bearer"), token>>,
     <<Word("Bearer"), token, token>>, <<Word("Basic"), token>>,
     <<InvalidUtf8, token>>, <<Word("Bearer"), InvalidUtf8>>}

(***************************************************************************)
(* The state machine.                                                      *)
(***************************************************************************)
NoCall == [fn |-> "none"]

Init ==
    /\ settings \in SettingsSpace
    /\ now = 0
    /\ accounts = InitialAccounts
    /\ orig = NoToken
    /\ ctx = NoRequest
    /\ tok = NoToken
    /\ res = Idle
    /\ sawExpired = FALSE
    /\ call = NoCall
    /\ ret = NoCall

\* time passes; the clock counts from the creation of the token string
Tick ==
    /\ tok # NoToken
    /\ now < MaxTime
    /\ now' = now + 1
    /\ res' = Idle
    /\ call' = NoCall
    /\ ret' = NoCall
    /\ UNCHANGED <<settings, accounts, orig, ctx, tok, sawExpired>>

\* the OAuth2 provider calls generate_token(request); the request's user, if
\* any, is an account of the store.  Tokens are stateless and independent of
\* each other, so a behaviour follows one token string from its creation.
Issue(request) ==
    /\ tok = NoToken
    /\ request.kind = "request" => (request.user # 0 => accounts[request.user].exists)
    /\ LET out == GenerateToken(request, now, "uuid4", settings)
       IN /\ orig' = IF out.raised = "" THEN out.token ELSE NoToken
          /\ tok' = orig'
    /\ ctx' = request
    /\ res' = Idle
    /\ sawExpired' = FALSE
    /\ call' = NoCall
    /\ ret' = NoCall
    /\ UNCHANGED <<settings, now, accounts>>

\* the holder changes one byte of the issued token string
Tamper(altered) ==
    /\ orig # NoToken
    /\ tok = orig
    /\ altered \in Tampered(orig)
    /\ tok' = altered
    /\ res' = Idle
    /\ sawExpired' = FALSE
    /\ call' = NoCall
    /\ ret' = NoCall
    /\ UNCHANGED <<settings, now, accounts, orig, ctx>>

\* an attacker builds a token string of their own
Forge(forged) ==
    /\ tok = NoToken
    /\ tok' = forged
    /\ orig' = NoToken
    /\ ctx' = NoRequest
    /\ res' = Idle
    /\ sawExpired' = FALSE
    /\ call' = NoCall
    /\ ret' = NoCall
    /\ UNCHANGED <<settings, now, accounts>>

\* a client obtains a token string from the other issuer
Federate(token) ==
    /\ tok = NoToken
    /\ tok' = token
    /\ orig' = NoToken
    /\ ctx' = NoRequest
    /\ res' = Idle
    /\ sawExpired' = FALSE
    /\ call' = NoCall
    /\ ret' = NoCall
    /\ UNCHANGED <<settings, now, accounts>>

\* a request carrying header reaches JWTAuthentication.authenticate; call
\* and ret record the header and what was handed to decode_jwt_token
Authn(header) ==
    /\ tok # NoToken \/ Len(header) < 2
    /\ res' = Authenticate(header, now, accounts, settings)
    /\ sawExpired' = (sawExpired \/
                      (res'.kind = "AuthenticationFailed"
                       /\ res'.reason = <<"Token has expired">>))
    /\ call' = [fn |-> "authenticate", header |-> header]
    /\ ret' = [fn |-> "decode_jwt_token", jwt_value |-> DecodeArgument(header, settings)]
    /\ UNCHANGED <<settings, now, accounts, orig, ctx, tok>>

Next ==
    \/ Tick
    \/ \E request \in Requests : Issue(request)
    \/ \E altered \in Tampered(orig) : Tamper(altered)
    \/ \E forged \in ForgedTokens : Forge(forged)
    \/ \E token \in FederatedTokens : Federate(token)
    \/ \E header \in HeadersWith(tok) : Authn(header)

Spec == Init /\ [][Next]_vars

(***************************************************************************)
(* The account store changes behind the engine's back (admin site, sign-up *)
(* views): the engine only reads it, in authenticate_credentials.          *)
(***************************************************************************)
\* an administrator enables or disables an account
SetActive(u, flag) ==
    /\ accounts[u].exists
    /\ accounts[u].is_active # flag
    /\ accounts' = [accounts EXCEPT ![u].is_active = flag]
    /\ res' = Idle
    /\ call' = NoCall
    /\ ret' = NoCall
    /\ UNCHANGED <<settings, now, orig, ctx, tok, sawExpired>>

\* an account is renamed; usernames are unique
Rename(u, name) ==
    /\ accounts[u].exists
    /\ \A v \in DOMAIN accounts : accounts[v].exists => accounts[v].username # name
    /\ accounts' = [accounts EXCEPT ![u].username = name]
    /\ res' = Idle
    /\ call' = NoCall
    /\ ret' = NoCall
    /\ UNCHANGED <<settings, now, orig, ctx, tok, sawExpired>>

\* an account is deleted
Delete(u) ==
    /\ accounts[u].exists
    /\ accounts' = [accounts EXCEPT ![u] = NoAccount]
    /\ res' = Idle
    /\ call' = NoCall
    /\ ret' = NoCall
    /\ UNCHANGED <<settings, now, orig, ctx, tok, sawExpired>>

\* deployments that can issue and verify their own tokens
InitAccounts ==
    /\ Init
    /\ PrivateKeyName(settings.JWT_ISSUER) \in settings.privateKeys
    /\ PublicKeyName(settings.JWT_ISSUER) \in settings.publicKeys
    /\ settings.JWT_ENC_ALGORITHM = "RS256"
    /\ settings.JWT_JWS_ALGORITHMS = {"RS256"}
    /\ settings.utcOffset = 0

NextAccounts ==
    \/ Tick
    \/ \E request \in Requests : Issue(request)
    \/ \E token \in FederatedTokens : Federate(token)
    \/ \E header \in HeadersWith(tok) : Authn(header)
    \/ \E u \in UserIds, flag \in BOOLEAN : SetActive(u, flag)
    \/ \E u \in UserIds, name \in Usernames : Rename(u, name)
    \/ \E u \in UserIds : Delete(u)

SpecAccounts == InitAccounts /\ [][NextAccounts]_vars

(***************************************************************************)
(* Key-name resolution on its own: two issuer names, looked up for signing *)
(* and for verification.                                                   *)
(***************************************************************************)
StringsOver(chars, maxLen) == UNION {[1..n -> chars] : n \in 0..maxLen}

IssuerStrings == StringsOver(IssuerChars, MaxIssLen)

InitKeys ==
    /\ settings \in {conf \in SettingsSpace :
          /\ conf.privateKeys = {} /\ conf.publicKeys = {}
          /\ conf.JWT_ENC_ALGORITHM = "RS256" /\ conf.JWT_JWS_ALGORITHMS = {"RS256"}
          /\ ~conf.JWT_AUTH_DISABLED /\ conf.utcOffset = 0}
    /\ now = 0
    /\ accounts = InitialAccounts
    /\ orig = NoToken
    /\ ctx = NoRequest
    /\ tok = NoToken
    /\ res = Idle
    /\ sawExpired = FALSE
    /\ call \in [fn : {"key_name"}, a : IssuerStrings, b : IssuerStrings]
    /\ ret = NoCall

\* generate_token's lookup in deployments whose JWT_ISSUER is call.a / call.b
SigningLookup ==
    /\ call.fn = "key_name"
    /\ ret' = [fn |-> "sign", a |-> PrivateKeyName(call.a), b |-> PrivateKeyName(call.b)]
    /\ UNCHANGED <<settings, now, accounts, orig, ctx, tok, res, sawExpired, call>>

\* decode_jwt_token's lookup for tokens whose iss is call.a / call.b
VerificationLookup ==
    /\ call.fn = "key_name"
    /\ ret' = [fn |-> "verify", a |-> PublicKeyName(call.a), b |-> PublicKeyName(call.b)]
    /\ UNCHANGED <<settings, now, accounts, orig, ctx, tok, res, sawExpired, call>>

NextKeys == SigningLookup \/ VerificationLookup

SpecKeys == InitKeys /\ [][NextKeys]_vars

(***************************************************************************)
(* The scope check on its own: a payload and a list of required scopes.    *)
(***************************************************************************)
ScopeChars == {"r", "w", " "}

\* payloads with a scope claim, and the payload without one
ScopePayloads == {[scope |-> str] : str \in StringsOver(ScopeChars, MaxScopeLen)} \cup {<<>>}

\* what a view may list in required_scopes, well-formed or not
RequiredWords == {<<"r">>, <<"w">>, <<"r", "w">>, <<"r", " ">>}
RequiredLists == {<<>>} \cup {<<x>> : x \in RequiredWords}
                 \cup {<<x, y>> : x \in RequiredWords, y \in RequiredWords}

InitScopes ==
    /\ settings \in {conf \in SettingsSpace :
          /\ conf.privateKeys = {} /\ conf.publicKeys = {}
          /\ conf.JWT_ENC_ALGORITHM = "RS256" /\ conf.JWT_JWS_ALGORITHMS = {"RS256"}
          /\ ~conf.JWT_AUTH_DISABLED /\ conf.utcOffset = 0}
    /\ now = 0
    /\ accounts = InitialAccounts
    /\ orig = NoToken
    /\ ctx = NoRequest
    /\ tok = NoToken
    /\ res = Idle
    /\ sawExpired = FALSE
    /\ call \in [fn : {"scopes"}, payload : ScopePayloads, scopes : RequiredLists]
    /\ ret = NoCall

\* a permission class calls token.allow_scopes(required_scopes)
AllowScopesCall ==
    /\ call.fn = "scopes"
    /\ ret' = [fn |-> "allow_scopes", value |-> AllowScopes(call.payload, call.scopes)]
    /\ UNCHANGED <<settings, now, accounts, orig, ctx, tok, res, sawExpired, call>>

\* a permission class calls token.is_valid(required_scopes)
IsValidCall ==
    /\ call.fn = "scopes"
    /\ ret' = [fn |-> "is_valid", value |-> IsValid(call.payload, call.scopes)]
    /\ UNCHANGED <<settings, now, accounts, orig, ctx, tok, res, sawExpired, call>>

NextScopes == AllowScopesCall \/ IsValidCall

SpecScopes == InitScopes /\ [][NextScopes]_vars

(***************************************************************************)
(* Properties.                                                             *)
(***************************************************************************)
\* the last authenticate() call handed the held token string to decode_jwt_token
Presented ==
    /\ ret.fn = "decode_jwt_token"
    /\ ret.jwt_value # NoToken
    /\ ret.jwt_value = tok

\* the held token string is the one generate_token returned, unaltered
Untouched == orig # NoToken /\ tok = orig

\* the deployment has both halves of its issuer's key pair and signs with an
\* algorithm it accepts
KeyPairConfigured ==
    /\ PrivateKeyName(settings.JWT_ISSUER) \in settings.privateKeys
    /\ PublicKeyName(settings.JWT_ISSUER) \in settings.publicKeys
    /\ settings.JWT_ENC_ALGORITHM \in settings.JWT_JWS_ALGORITHMS

\* the values C1 expects back, read off the issuance context
ContextClientId ==
    IF ctx.kind # "request" THEN ""
    ELSE IF ctx.client_id # "" THEN ctx.client_id ELSE ctx.client

ContextScope ==
    IF ctx.kind # "request" \/ ctx.scopes = <<>> THEN <<>>
    ELSE IF Len(ctx.scopes) = 1 THEN ctx.scopes[1]
    ELSE ctx.scopes[1] \o <<" ">> \o ctx.scopes[2]

ContextSub ==
    IF ctx.kind # "request" THEN ""
    ELSE IF ctx.user # 0 THEN ToString(ctx.user) ELSE ContextClientId

ClaimsMatchContext(payload) ==
    /\ PayloadGet(payload, "client_id") = ContextClientId
    /\ (IF "scope" \in DOMAIN payload THEN payload.scope ELSE <<>>) = ContextScope
    /\ PayloadGet(payload, "sub") = ContextSub

\* C1 (as claimed): a token verified at the instant it was issued, in a
\* deployment with a configured key pair whose local time is UTC, is accepted
\* and the claims handed back carry the context's scope, client_id and sub.
RoundTripLaw ==
    (Presented /\ Untouched /\ KeyPairConfigured /\ settings.utcOffset = 0 /\ now = 0)
        => /\ res.kind = "authenticated"
           /\ ClaimsMatchContext(res.auth)

\* C1, what the code does: the round trip holds for contexts without a
\* client id
RoundTripWithoutClient ==
    (Presented /\ Untouched /\ KeyPairConfigured /\ settings.utcOffset = 0 /\ now = 0
       /\ ContextClientId = "")
        => /\ res.kind = "authenticated"
           /\ ClaimsMatchContext(res.auth)

TokenHasExpired == Failed("AuthenticationFailed", <<"Token has expired">>, FALSE)

\* C2 (as claimed): an unaltered token is accepted at every time t with
\* iat <= t < iat + L, is answered 'Token has expired' at every t >= iat + L,
\* and is never accepted again once it was answered 'Token has expired'.
ExpiryOverTime ==
    (Presented /\ Untouched /\ KeyPairConfigured)
        => LET iat == orig.payload.iat
               L == settings.ACCESS_TOKEN_EXPIRE_SECONDS
           IN /\ (iat <= now /\ now < iat + L) => res.kind = "authenticated"
              /\ now >= iat + L => res = TokenHasExpired
              /\ sawExpired => res.kind # "authenticated"

\* C2, what the code does: the same, for tokens that carry no aud claim
ExpiryOverTimeWithoutClient ==
    (Presented /\ Untouched /\ KeyPairConfigured /\ ContextClientId = "")
        => LET iat == orig.payload.iat
               L == settings.ACCESS_TOKEN_EXPIRE_SECONDS
           IN /\ (iat <= now /\ now < iat + L) => res.kind = "authenticated"
              /\ now >= iat + L => res = TokenHasExpired
              /\ sawExpired => res.kind # "authenticated"

ErrorDecodingToken == Failed("AuthenticationFailed", <<"Error decoding token">>, FALSE)

AlgorithmNotAllowed ==
    Failed("AuthenticationFailed",
           <<"Invalid token: ", "The specified alg value is not allowed">>, FALSE)

MissingPublicKey(issuer) ==
    Failed("AuthenticationFailed",
           <<"Invalid token: ", "Missing public key setting: ">> \o PublicKeyName(issuer),
           FALSE)

\* the token string generate_token returned verifies at the current time
PreviouslyValid ==
    orig # NoToken /\ DecodeJwtToken(orig, now, settings).raised = ""

\* the held token string is the issued one with one byte changed
OneByteChanged == orig # NoToken /\ tok \in Tampered(orig)

\* the one-byte changes that leave every decoded byte of the token as it was
SameDecodedBytes == tok = [orig EXCEPT !.sigText = "slack"]

\* C3 (as claimed): a previously valid token with any one byte changed is
\* refused, never accepted.  (The boundary has one answer, 'Error decoding
\* token', for bad signatures and malformed strings alike; any refusal is
\* counted here as the claimed one.)
TamperResistance ==
    (Presented /\ OneByteChanged /\ PreviouslyValid)
        => res.kind = "AuthenticationFailed"

\* C3, what the code does: a previously valid token with one byte changed is
\* refused, unless the byte is the last character of the signature segment and
\* differs only in the bits base64url decoding drops, in which case the token
\* is accepted with the claims it was issued with.  The refusal is 'alg value is
\* not allowed' when the byte changed the header's alg, 'Missing public key
\* setting' when it changed iss to an issuer without a configured key, and
\* 'Error decoding token' in every other case.
TamperOutcome ==
    (Presented /\ OneByteChanged /\ PreviouslyValid)
        => IF SameDecodedBytes
           THEN res.kind = "authenticated" /\ res.auth = orig.payload
           ELSE IF tok.header # Garbage /\ tok.header.alg # orig.header.alg
           THEN res = AlgorithmNotAllowed
           ELSE IF /\ tok.payload # Garbage
                   /\ tok.payload.iss # orig.payload.iss
                   /\ PublicKeyName(tok.payload.iss) \notin settings.publicKeys
           THEN res = MissingPublicKey(tok.payload.iss)
           ELSE res = ErrorDecodingToken

\* the presented string parses as a JWT whose header names an algorithm
\* outside the configured allow-list
AlgorithmOutsideAllowList ==
    /\ Presented
    /\ JwtLoad(tok).raised = ""
    /\ tok.header.alg \notin settings.JWT_JWS_ALGORITHMS

\* C4: a token whose header algorithm is not in JWT_JWS_ALGORITHMS is never
\* accepted and never reaches the account store, whether or not a key is
\* configured for its issuer and whatever its signature.
AlgorithmAllowListEnforced ==
    AlgorithmOutsideAllowList => (res.kind # "authenticated" /\ ~res.lookup)

\* C4 witness: a token signed by the issuer's own private key, whose public
\* key is configured, was refused only for its algorithm
WellSignedTokenRefusedForAlgorithm ==
    /\ AlgorithmOutsideAllowList
    /\ Untouched
    /\ PublicKeyName(tok.payload.iss) \in settings.publicKeys
    /\ SignatureVerifies(tok, PublicKeyName(tok.payload.iss))
    /\ res = AlgorithmNotAllowed

\* the presented string parses, and no public key is configured for the
\* normalized name of its issuer (its iss, or JWT_ISSUER without one)
NoKeyForIssuer ==
    /\ Presented
    /\ JwtLoad(tok).raised = ""
    /\ IssuerOf(tok.payload, settings) # NonString
    /\ PublicKeyName(IssuerOf(tok.payload, settings)) \notin settings.publicKeys

\* C5 (as claimed): a missing verification key is not turned into the
\* AuthenticationFailed outcome that invalid tokens get.
MissingKeySurfacedDistinctly ==
    NoKeyForIssuer => res.kind # "AuthenticationFailed"

\* C5, what the code does: a missing verification key becomes the same
\* AuthenticationFailed outcome that invalid tokens get; only its reason,
\* 'Invalid token: Missing public key setting: <setting name>', tells it apart.
MissingKeyIsAuthenticationFailure ==
    NoKeyForIssuer => res = MissingPublicKey(IssuerOf(tok.payload, settings))

\* C8 (as claimed): sub and username are both in the payload or both absent.
SubAndUsernameTogether ==
    orig # NoToken =>
        ("sub" \in DOMAIN orig.payload <=> "username" \in DOMAIN orig.payload)

\* C8 (amended): username never comes without sub; sub comes without
\* username exactly when the request has a client id and no authenticated
\* user, and then sub is the client id.
SubWithoutUsernameOnlyForClients ==
    orig # NoToken =>
        LET payload == orig.payload
            hasSub == "sub" \in DOMAIN payload
            hasName == "username" \in DOMAIN payload
            clientOnly == /\ ctx.kind = "request"
                          /\ ctx.user = 0
                          /\ (ctx.client_id # "" \/ ctx.client # "")
        IN /\ hasName => hasSub
           /\ (hasSub /\ ~hasName) <=> clientOnly
           /\ clientOnly => payload.sub = ContextClientId

\* C8 witness: a token was issued for a client without a user
ClientOnlyTokenIssued ==
    /\ orig # NoToken
    /\ ctx.kind = "request" /\ ctx.user = 0 /\ ctx.client # ""
    /\ "sub" \in DOMAIN orig.payload
    /\ "username" \notin DOMAIN orig.payload

\* C10 (as claimed): an unaltered, unexpired token issued without a user is
\* accepted with the anonymous principal, without an account lookup.
UserlessTokenIsAnonymous ==
    (/\ Presented /\ Untouched /\ KeyPairConfigured /\ settings.utcOffset = 0
     /\ now < orig.payload.exp
     /\ (ctx.kind = "request" => ctx.user = 0))
        => /\ res.kind = "authenticated"
           /\ res.user = AnonymousUser
           /\ ~res.lookup

\* the claims the last authenticate() call handed to authenticate_credentials
VerifiedPayload == DecodeJwtToken(tok, now, settings)

\* the accounts whose id, in string form, is sub and whose username is username
AccountsNamedBy(payload) ==
    {u \in UserIds :
        /\ accounts[u].exists
        /\ ToString(u) = PayloadGet(payload, "sub")
        /\ accounts[u].username = PayloadGet(payload, "username")}

UserNotFound == Failed("AuthenticationFailed", <<"User not found">>, TRUE)
AccountDisabled == Failed("AuthenticationFailed", <<"User account is disabled">>, TRUE)

\* C9 (as claimed): with JWT_AUTH_DISABLED unset, a verified token yields a
\* user account only if that account's id is sub, its username is username
\* and it is active; with sub and username non-empty and no account matching
\* both the outcome is 'User not found'; with the matching account inactive
\* it is 'User account is disabled'.
CredentialsAgreeWithAccountStore ==
    (Presented /\ ~settings.JWT_AUTH_DISABLED /\ VerifiedPayload.raised = "")
        => LET payload == VerifiedPayload.value
               named == AccountsNamedBy(payload)
               bound == PayloadGet(payload, "sub") # "" /\ PayloadGet(payload, "username") # ""
           IN /\ (res.kind = "authenticated" /\ res.user # AnonymousUser)
                    => (res.user \in named /\ accounts[res.user].is_active)
              /\ (bound /\ named = {}) => res = UserNotFound
              /\ (bound /\ \E u \in named : ~accounts[u].is_active) => res = AccountDisabled

\* C9, what the code does: the same, except that a sub that is not a number
\* is answered with a ValueError out of the account lookup, not with 'User
\* not found'.
CredentialsOnCode ==
    (Presented /\ ~settings.JWT_AUTH_DISABLED /\ VerifiedPayload.raised = "")
        => LET payload == VerifiedPayload.value
               named == AccountsNamedBy(payload)
               bound == PayloadGet(payload, "sub") # "" /\ PayloadGet(payload, "username") # ""
               numeric == IdOfString(PayloadGet(payload, "sub")) # -1
           IN /\ (res.kind = "authenticated" /\ res.user # AnonymousUser)
                    => (res.user \in named /\ accounts[res.user].is_active)
              /\ (bound /\ ~numeric) => res.kind = "ValueError"
              /\ (bound /\ numeric /\ named = {}) => res = UserNotFound
              /\ (bound /\ \E u \in named : ~accounts[u].is_active) => res = AccountDisabled

\* two characters that differ at most in letter case
SameLetter(c, d) == c = d \/ {c, d} = {"a", "A"}

\* a and b differ only in letter case and in which non-alphanumeric
\* characters they use
SameUpToCaseAndPunctuation(a, b) ==
    /\ Len(a) = Len(b)
    /\ \A i \in 1..Len(a) :
          SameLetter(a[i], b[i]) \/ {a[i], b[i]} \subseteq {"-", "_", "."}

\* a and b differ only in letter case and in using '-' or '_'
SameUpToCaseAndDash(a, b) ==
    /\ Len(a) = Len(b)
    /\ \A i \in 1..Len(a) :
          SameLetter(a[i], b[i]) \/ {a[i], b[i]} \subseteq {"-", "_"}

\* C6 (as claimed): issuer names that differ only in letter case or in their
\* non-alphanumeric characters get the same key name, for signing and for
\* verification.
KeyNameIgnoresCaseAndPunctuation ==
    (ret.fn \in {"sign", "verify"} /\ SameUpToCaseAndPunctuation(call.a, call.b))
        => ret.a = ret.b

\* C6, what the code does: issuer names get the same key name, for signing
\* and for verification, exactly when they differ only in letter case and in
\* using '-' or '_'; any other punctuation is kept as it is.
KeyNameIgnoresCaseAndDash ==
    ret.fn \in {"sign", "verify"}
        => (ret.a = ret.b <=> SameUpToCaseAndDash(call.a, call.b))

\* word is one of the whitespace-separated tokens of str: a non-empty run
\* without blanks that is bounded by blanks or the ends of str
IsTokenOf(word, str) ==
    /\ word # <<>>
    /\ \A k \in 1..Len(word) : word[k] # " "
    /\ \E i \in 1..Len(str) :
          /\ i + Len(word) - 1 <= Len(str)
          /\ \A k \in 1..Len(word) : str[i + k - 1] = word[k]
          /\ i = 1 \/ str[i - 1] = " "
          /\ i + Len(word) - 1 = Len(str) \/ str[i + Len(word)] = " "

\* C7: allow_scopes and is_valid answer true iff nothing is required or
\* every required scope is one of the whitespace-separated tokens of the
\* scope claim (none, when the claim is absent).
ScopeSatisfaction ==
    ret.fn \in {"allow_scopes", "is_valid"}
        => LET str == IF "scope" \in DOMAIN call.payload THEN call.payload.scope ELSE <<>>
           IN ret.value <=>
                 (call.scopes = <<>> \/
                  \A i \in 1..Len(call.scopes) : IsTokenOf(call.scopes[i], str))

\* C7 witness: 'r' and 'w' required (with a repeat), granted ' w r' in the
\* other order behind a blank, and the answer was true
ScopesGrantedInAnyOrder ==
    /\ ret.fn = "allow_scopes"
    /\ call.payload = [scope |-> <<"w", " ", "r">>]
    /\ call.scopes = <<<<"r">>, <<"w">>>>
    /\ ret.value

\* the element is text that can name an authentication scheme
IsSchemeName(element) == "word" \in DOMAIN element

NoCredentialsProvided ==
    Failed("AuthenticationFailed",
           <<"Invalid Authorization header. No credentials provided.">>, FALSE)

CredentialsContainSpaces ==
    Failed("AuthenticationFailed",
           <<"Invalid Authorization header. Credentials string should not contain spaces.">>,
           FALSE)

\* C11: when the header's first element is the configured scheme, a token
\* string is handed to decode_jwt_token only if exactly one further element
\* follows, and it is that element; with no further element, or with two or
\* more, the outcome is a malformed-header AuthenticationFailed and
\* decode_jwt_token is not called; without a header, or with another scheme
\* name first, the outcome is None and decode_jwt_token is not called.
BearerHeaderParsing ==
    call.fn = "authenticate"
        => LET header == call.header
               scheme == Word(settings.JWT_AUTH_HEADER_PREFIX)
           IN /\ ret.jwt_value # NoToken
                    => (Len(header) = 2 /\ header[1] = scheme /\ ret.jwt_value = header[2])
              /\ (header = <<scheme>>)
                    => (res = NoCredentialsProvided /\ ret.jwt_value = NoToken)
              /\ (Len(header) > 2 /\ header[1] = scheme)
                    => (res = CredentialsContainSpaces /\ ret.jwt_value = NoToken)
              /\ (header = <<>> \/ (IsSchemeName(header[1]) /\ header[1] # scheme))
                    => (res = ReturnedNone /\ ret.jwt_value = NoToken)

\* C11 witness: a token string that verifies was sent twice after the scheme,
\* and the request was refused for its header without decoding anything
ValidTokenInMalformedHeader ==
    /\ call.fn = "authenticate"
    /\ call.header = <<Word(settings.JWT_AUTH_HEADER_PREFIX), tok, tok>>
    /\ Untouched
    /\ DecodeJwtToken(tok, now, settings).raised = ""
    /\ res = CredentialsContainSpaces
    /\ ret.jwt_value = NoToken

\* the names of the deployment's key settings, as they appear in a message
SettingNamePrefixes == {"JWT_PUBLIC_KEY_", "JWT_PRIVATE_KEY_"}

\* the reason names a setting of the deployment
MentionsSettingName(reason) ==
    \E i \in 1..Len(reason) : reason[i] \in SettingNamePrefixes

\* C12 (as claimed): whatever header and token string is presented,
\* authenticate() ends in None, in a (principal, claims) pair or in
\* AuthenticationFailed with a reason that names no setting; no other
\* exception leaves it.
TokenErrorsRecovered ==
    call.fn = "authenticate"
        => /\ res.kind \in {"None", "authenticated", "AuthenticationFailed"}
           /\ res.kind = "AuthenticationFailed" => ~MentionsSettingName(res.reason)

\* C12, what the code does: besides the three outcomes, AttributeError
\* leaves authenticate() exactly when the presented string parses and its iss
\* is not a string; a Unicode decoding error exactly when the scheme or the
\* credentials are not UTF-8; ValueError exactly when a verified token names
\* a user with a sub that is not a number; and the reason of
\* AuthenticationFailed names a key setting exactly when no key is configured
\* for the token's issuer.
BoundaryOutcomes ==
    call.fn = "authenticate"
        => LET header == call.header
               parsed == Presented /\ JwtLoad(tok).raised = ""
               verified == Presented /\ VerifiedPayload.raised = ""
           IN /\ res.kind \in {"None", "authenticated", "AuthenticationFailed",
                               "AttributeError", "DjangoUnicodeDecodeError",
                               "UnicodeDecodeError", "ValueError"}
              /\ res.kind = "AttributeError"
                    <=> (parsed /\ IssuerOf(tok.payload, settings) = NonString)
              /\ res.kind = "DjangoUnicodeDecodeError"
                    <=> (header # <<>> /\ header[1] = InvalidUtf8)
              /\ res.kind = "UnicodeDecodeError"
                    <=> header = <<Word(settings.JWT_AUTH_HEADER_PREFIX), InvalidUtf8>>
              /\ res.kind = "ValueError"
                    <=> (/\ verified /\ ~settings.JWT_AUTH_DISABLED
                         /\ PayloadGet(VerifiedPayload.value, "username") # ""
                         /\ PayloadGet(VerifiedPayload.value, "sub") # ""
                         /\ IdOfString(PayloadGet(VerifiedPayload.value, "sub")) = -1)
              /\ (res.kind = "AuthenticationFailed" /\ MentionsSettingName(res.reason))
                    <=> NoKeyForIssuer

\* the stages of verification a token string can fail, as predicates of the
\* string: it does not parse
FailsParse(token) == JwtLoad(token).raised # ""

\* it parses, and a public key is configured for its issuer
ReachesSignatureCheck(token) ==
    /\ ~FailsParse(token)
    /\ IssuerOf(token.payload, settings) # NonString
    /\ PublicKeyName(IssuerOf(token.payload, settings)) \in settings.publicKeys

\* its algorithm is not allowed, or its signature does not verify under the
\* key configured for its issuer
FailsSignature(token) ==
    /\ ReachesSignatureCheck(token)
    /\ \/ token.header.alg \notin settings.JWT_JWS_ALGORITHMS
       \/ ~SignatureVerifies(token, PublicKeyName(IssuerOf(token.payload, settings)))

\* its exp has passed at time t
FailsExpiry(token, t) == "exp" \in DOMAIN token.payload /\ token.payload.exp <= t

\* its iat is missing or ahead of time t
FailsIssuedAt(token, t) == "iat" \notin DOMAIN token.payload \/ token.payload.iat > t

\* the token strings of the model other than the held one
OtherTokenStrings == ForgedTokens \cup FederatedTokens \cup Tampered(orig)

\* what authenticate() answers to 'Bearer <token>' in the current state
AnswerTo(token) ==
    Authenticate(<<Word(settings.JWT_AUTH_HEADER_PREFIX), token>>, now, accounts, settings)

NotYetValid ==
    Failed("AuthenticationFailed",
           <<"Invalid token: ", "The token is not yet valid (iat)">>, FALSE)

\* C13 (as claimed): the first violated stage decides the answer.  A token
\* that fails the signature check is refused, and not as expired, whatever
\* its exp; a correctly signed token whose exp has passed is answered 'Token
\* has expired' whatever its iat; and a string that does not parse is not
\* given the answer that some badly signed token gets.
FailFastStageOrder ==
    Presented
        => /\ FailsSignature(tok)
                 => (res.kind = "AuthenticationFailed" /\ res # TokenHasExpired)
           /\ (ReachesSignatureCheck(tok) /\ ~FailsSignature(tok) /\ FailsExpiry(tok, now))
                 => res = TokenHasExpired
           /\ FailsParse(tok)
                 => \A other \in OtherTokenStrings :
                        FailsSignature(other) => AnswerTo(other) # res

\* C13, what the code does: parse, key resolution and signature check come
\* in the claimed order, but the time claims are checked iat first: a
\* correctly signed token whose iat is ahead of the clock is answered 'not yet
\* valid' even when its exp has passed, and 'Token has expired' is the answer
\* only when iat is absent or not ahead.  A string that does not parse and a
\* token whose signature does not verify both get 'Error decoding token'.
CodeStageOrder ==
    Presented
        => /\ FailsParse(tok) => res = ErrorDecodingToken
           /\ FailsSignature(tok)
                 => IF tok.header.alg \notin settings.JWT_JWS_ALGORITHMS
                    THEN res = AlgorithmNotAllowed
                    ELSE res = ErrorDecodingToken
           /\ (ReachesSignatureCheck(tok) /\ ~FailsSignature(tok))
                 => IF "iat" \in DOMAIN tok.payload /\ tok.payload.iat > now
                    THEN res = NotYetValid
                    ELSE (FailsExpiry(tok, now) <=> res = TokenHasExpired)

\* the presented token is correctly signed for its issuer and not expired
SignedAndUnexpired ==
    /\ Presented
    /\ ReachesSignatureCheck(tok)
    /\ ~FailsSignature(tok)
    /\ ~FailsExpiry(tok, now)

\* C14 (as claimed): a correctly signed, unexpired token whose iat is missing
\* or ahead of the clock is refused, and every claims value handed back
\* carries an iat that is not after the time of verification.  (The claim
\* names the refusal BadSignature; any refusal is counted here.)
IssuedAtSanity ==
    /\ (SignedAndUnexpired /\ FailsIssuedAt(tok, now))
          => res.kind = "AuthenticationFailed"
    /\ (Presented /\ res.kind = "authenticated")
          => ("iat" \in DOMAIN res.auth /\ res.auth.iat <= now)

\* C14, what the code does: a correctly signed, unexpired token whose iat is
\* ahead of the clock is refused with 'not yet valid', which is not the
\* answer a bad signature gets; a token without iat is not refused for it;
\* the claims handed back carry no iat or one that is not after the time of
\* verification.
IssuedAtOnCode ==
    /\ (SignedAndUnexpired /\ "iat" \in DOMAIN tok.payload /\ tok.payload.iat > now)
          => res = NotYetValid
    /\ (SignedAndUnexpired /\ "iat" \notin DOMAIN tok.payload
           /\ "aud" \notin DOMAIN tok.payload)
          => res.kind \in {"authenticated", "ValueError"}
              \/ res \in {UserNotFound, AccountDisabled}
    /\ (Presented /\ res.kind = "authenticated")
          => ("iat" \in DOMAIN res.auth => res.auth.iat <= now)

\* the token's signature bytes were made with the private key that belongs to
\* the public key configured for issuer, under the header's algorithm, over
\* the first two segments as presented
SignedFor(token, issuer) ==
    /\ PublicKeyName(issuer) \in settings.publicKeys
    /\ token.sig.key = PairOf(PublicKeyName(issuer))
    /\ token.sig.alg = token.header.alg
    /\ token.sig.input.header = token.header
    /\ token.sig.input.payload = token.payload
    /\ token.sig.input.text = token.payloadText

\* C15: claims are handed back, or used to look up an account, only for a
\* token whose signature verifies under the public key configured for the
\* normalized name of its own iss (of JWT_ISSUER when it has none), and they
\* are the token's claims; in particular a token signed with the key of one
\* trusted issuer and claiming an issuer with another key is refused.
IssuerKeyBinding ==
    Presented
        => /\ (res.kind = "authenticated" \/ res.lookup)
                 => /\ ~FailsParse(tok)
                    /\ IssuerOf(tok.payload, settings) # NonString
                    /\ SignedFor(tok, IssuerOf(tok.payload, settings))
           /\ res.kind = "authenticated" => res.auth = tok.payload
           /\ (/\ ReachesSignatureCheck(tok)
               /\ tok.sig.key # PairOf(PublicKeyName(IssuerOf(tok.payload, settings))))
                 => (res.kind = "AuthenticationFailed" /\ ~res.lookup)

\* C15 witness: in a deployment that trusts both issuers, a token signed by
\* the other issuer's key and claiming this deployment's issuer was refused
\* without an account lookup
CrossIssuerTokenRefused ==
    /\ Presented
    /\ {PublicKeyName(DefaultIssuer), PublicKeyName(OtherIssuer)} \subseteq settings.publicKeys
    /\ tok \in FederatedTokens
    /\ tok.sig.key = PairOf(PrivateKeyName(OtherIssuer))
    /\ tok.payload = [FederatedClaims EXCEPT !.iss = DefaultIssuer]
    /\ tok.sig.input.payload = tok.payload
    /\ res = ErrorDecodingToken

====
